---- MODULE Spec2Model ----
(***************************************************************************)
(* Historical odds collection of ai-sports-model-builder.                  *)
(*                                                                         *)
(* Part I   HistoricalOddsCollector (src/data_collection/                  *)
(*          historical_odds_collector.py): the asyncio day tasks, the      *)
(*          recursive _process_date walk, _save_to_db and the ORM session. *)
(* Part II  scripts/collect_historical_odds.py with                        *)
(*          OddsAPIClient.store_odds_snapshot: the sequential              *)
(*          next_timestamp-following loop and the raw-SQL store.           *)
(* Part III the functions applied on their own: the game id, the backoff   *)
(*          delay of _handle_rate_limit, _generate_date_range.             *)
(* Part IV  HistoricalDataService.collect_historical_odds with             *)
(*          find_matching_game (src/services/data/                         *)
(*          historical_data_service.py).                                   *)
(* Part V   clients.OddsAPIClient._make_request and _wait_for_rate_limit   *)
(*          (src/data_collection/clients/odds_api_client.py).              *)
(*                                                                         *)
(* Instants are counted in slots; a calendar day has SlotsPerDay slots and *)
(* day d starts at slot d * SlotsPerDay (its midnight).  Days are numbered *)
(* from 1, so that 0 is free to stand for Python's None.                   *)
(***************************************************************************)
EXTENDS Integers, Sequences, FiniteSets, TLC

VARIABLES
    visited_timestamps,   \* HistoricalOddsCollector.visited_timestamps
    visited_game_ids,     \* HistoricalOddsCollector.visited_game_ids
    collection_stats,     \* HistoricalOddsCollector.collection_stats
    max_concurrent_requests, \* HistoricalOddsCollector.max_concurrent_requests
    semaphore,            \* free permits of the day-level asyncio.Semaphore
    next_day_semaphore,   \* free permits of self.next_day_semaphore
    task,                 \* state of each process_with_semaphore task
    stack,                \* per task: the _process_date frames it is inside
    running,              \* the task the event loop is executing, if any
    store,                \* committed rows: games and game_odds
    session,              \* rows of the ORM session's open transaction
    report,               \* collection_stats.json once written
    hist,                 \* history of fetches and emissions (observation only)
    script,               \* scripts/collect_historical_odds.py: the loop's locals
    odds_store,           \* committed rows of games, odds_snapshots, bookmaker_odds
    derived,              \* history of game-id derivations (observation only)
    client,               \* OddsAPIClient.collect_historical_odds: the loop's locals
    calc,                 \* results of the functions applied on their own
    service,              \* HistoricalDataService.collect_historical_odds: its locals and rows
    pacer                 \* clients.OddsAPIClient: the clock, its fields, its callers

----------------------------------------------------------------------------
(* Bounds of the model *)

NumDays == 2
SlotsPerDay == 2
MaxConcurrentRequests == 2
MaxRateLimitHits == 2

MaxRuns == 2
MaxScriptRequests == 6
\* ids derived in a row by store_odds_snapshot applied on its own
MaxDerived == 2
\* rate-limit errors handed to _handle_rate_limit in a row
MaxBackoffHits == 6
\* longest span, in years, given to _generate_date_range
NumYears == 2

\* concurrent callers of clients.OddsAPIClient._make_request
NumCallers == 2
\* the last instant of the clock of the pacing model
MaxTime == 8
\* _min_request_interval, in ticks of that clock
MinRequestInterval == 3
\* the wait of tenacity between two attempts, in ticks (shorter than the
\* interval, as 4 s is shorter than 30 days / 500)
RetryWait == 1

(* Program constants *)

MaxDepth == 5
BackoffCap == 30
NoTs == 0
ErrorLimit == 5
\* the year of test_generate_date_range
TestYear == 2024

\* stop_after_attempt(3)
MaxAttempts == 3

Days == 1..NumDays
Callers == 1..NumCallers
\* the provider also holds the day after the requested range
Timestamps == SlotsPerDay..((NumDays + 2) * SlotsPerDay - 1)

\* _normalize_timestamp(ts).date()
DateOf(ts) == ts \div SlotsPerDay

\* the midnight timestamps _generate_date_range yields, one per day
dates == [d \in Days |-> d * SlotsPerDay]

----------------------------------------------------------------------------
(* Provider payload *)

LosAngelesLakers == <<"L","o","s"," ","A","n","g","e","l","e","s"," ","L","a","k","e","r","s">>
LosAngelesClippers == <<"L","o","s"," ","A","n","g","e","l","e","s"," ","C","l","i","p","p","e","r","s">>
LALakers == <<"L","A"," ","L","a","k","e","r","s">>
GoldenStateWarriors == <<"G","o","l","d","e","n"," ","S","t","a","t","e"," ","W","a","r","r","i","o","r","s">>
BostonCeltics == <<"B","o","s","t","o","n"," ","C","e","l","t","i","c","s">>
Philadelphia76ers == <<"7","6","e","r","s">>

\* rows of nba_game_lines.nba_teams and nba_game_lines.bookmakers
TeamsTable == {LosAngelesLakers, LosAngelesClippers, GoldenStateWarriors, BostonCeltics}
BookmakersTable == {"draftkings", "fanduel"}

\* MarketType enum values
MarketTypes == {"h2h", "spreads", "totals"}

Market(key, priced, malformed) == [key |-> key, priced |-> priced, malformed |-> malformed]

\* The game records the provider serves, by provider game id.  "malformed"
\* marks a market one of whose outcomes lacks a key the collector indexes
\* (outcome["point"], outcome["price"]), so that reading it raises KeyError.
GameData ==
    [id \in {"g1", "g2", "g3"} |->
        CASE id = "g1" ->
                [id |-> "g1", home_team |-> LosAngelesLakers, away_team |-> GoldenStateWarriors,
                 commence_time |-> 2 * SlotsPerDay + 1,
                 bookmakers |-> << [key |-> "draftkings",
                                    markets |-> << Market("h2h", TRUE, FALSE),
                                                   Market("spreads", TRUE, FALSE) >>],
                                   [key |-> "betbogus",
                                    markets |-> << Market("h2h", TRUE, FALSE) >>] >>]
          [] id = "g2" ->
                [id |-> "g2", home_team |-> BostonCeltics, away_team |-> LosAngelesClippers,
                 commence_time |-> 1 * SlotsPerDay + 1,
                 bookmakers |-> << [key |-> "draftkings",
                                    markets |-> << Market("h2h", TRUE, FALSE),
                                                   Market("spreads", TRUE, TRUE) >>],
                                   [key |-> "fanduel",
                                    markets |-> << Market("totals", TRUE, FALSE) >>] >>]
          [] id = "g3" ->
                [id |-> "g3", home_team |-> LALakers, away_team |-> Philadelphia76ers,
                 commence_time |-> 2 * SlotsPerDay,
                 bookmakers |-> << [key |-> "fanduel",
                                    markets |-> << Market("h2h", TRUE, FALSE),
                                                   Market("alternate", TRUE, FALSE) >>] >>]]

\* the "data" arrays a snapshot may carry
DataChoices == { <<>>, <<"g2">>, <<"g3", "g1">> }

\* the "data" arrays served to the sequential script
ScriptDataChoices == { <<>>, <<"g1", "g3">> }

ErrRateLimit == "EXCEEDED_FREQ_LIMIT"
ErrOther == "API Error"
NoError == ""

Snapshot(ts, next, data) == [timestamp |-> ts, next_timestamp |-> next, data |-> data]

\* the next_timestamp pointers the provider may attach to the snapshot at ts:
\* none, the next slot, the next day's midnight, the slot after that
\* midnight, or the slot before ts
NextChoices(ts) ==
    {NoTs} \cup ({ts + 1, (DateOf(ts) + 1) * SlotsPerDay,
                  (DateOf(ts) + 1) * SlotsPerDay + 1, ts - 1} \cap Timestamps)

\* Snapshot Fetcher (get_historical_odds_async): what one call for `date` can
\* return, a pair (snapshots, error).
Responses(date) ==
    { [snapshots |-> << Snapshot(date, n, d) >>, error |-> NoError] :
          n \in NextChoices(date), d \in DataChoices }
    \cup { [snapshots |-> << >>, error |-> e] : e \in {NoError, ErrRateLimit, ErrOther} }

----------------------------------------------------------------------------
(* Pure helpers of the collector *)

\* a variant of _get_next_day_timestamp without the comparison of the dates:
\* every next_timestamp is returned
GetNextDayTimestampAnyDay(snapshot) == snapshot.next_timestamp

\* _get_next_day_timestamp
GetNextDayTimestamp(snapshot) ==
    IF snapshot.next_timestamp = NoTs THEN NoTs
    ELSE IF DateOf(snapshot.next_timestamp) > DateOf(snapshot.timestamp)
         THEN snapshot.next_timestamp
         ELSE NoTs

\* a variant of _should_skip_date that never finds the date covered
ShouldSkipDateNever(date, visited) == FALSE

\* a variant of _should_skip_date that compares whole timestamps, not dates
ShouldSkipDateExact(date, visited) == date \in visited

\* _should_skip_date
ShouldSkipDate(date, visited) ==
    \E ts \in visited : DateOf(ts) = DateOf(date)

\* "EXCEEDED_FREQ_LIMIT" in error
IsRateLimit(error) == error = ErrRateLimit

Min(a, b) == IF a < b THEN a ELSE b

\* a variant of retry_delay without the cap
RetryDelayUncapped(retries) == 1 * (2 ^ retries)

\* retry_delay of _handle_rate_limit, after the counter was incremented
RetryDelay(retries) == Min(1 * (2 ^ retries), BackoffCap)

\* snapshot.get("data") is truthy
HasData(snapshot) == snapshot.data # << >>

----------------------------------------------------------------------------
(* _save_to_db.  The function runs without awaiting, so it is one step of   *)
(* the event loop.  Its working state is a record c:                       *)
(*   vg            visited_game_ids                                        *)
(*   games, odds   committed rows (Game.game_id; the GameOdds key tuple)   *)
(*   tx_games, tx_odds  rows flushed or pending in the open transaction    *)
(*   new_games, duplicate_games, errors   increments of collection_stats   *)
(*   violations    uniqueness violations the database raised               *)
(*   raised        the exception that left the function, "" for none       *)

OddsKey(game_id, bookmaker, market_type, timestamp) ==
    [game_id |-> game_id, bookmaker |-> bookmaker,
     market_type |-> market_type, timestamp |-> timestamp]

\* the "existing_odds" pre-check: the query autoflushes, so it sees the
\* committed rows and the rows of the open transaction
ExistingOdds(key, rows) == key \in rows

\* for market_data in bm_data["markets"]
RECURSIVE SaveMarkets(_, _, _, _, _, _)
SaveMarkets(markets, game_id, bookmaker, timestamp, existing, added) ==
    IF markets = << >> THEN [odds |-> added, raised |-> FALSE]
    ELSE LET m == Head(markets)
             key == OddsKey(game_id, bookmaker, m.key, timestamp)
             rest == Tail(markets)
         IN  IF m.key \notin MarketTypes
             THEN SaveMarkets(rest, game_id, bookmaker, timestamp, existing, added)
             ELSE IF ExistingOdds(key, existing \cup added)
             THEN SaveMarkets(rest, game_id, bookmaker, timestamp, existing, added)
             ELSE IF m.malformed
             THEN [odds |-> added, raised |-> TRUE]
             ELSE IF m.priced
             THEN SaveMarkets(rest, game_id, bookmaker, timestamp, existing,
                              added \cup {key})
             ELSE SaveMarkets(rest, game_id, bookmaker, timestamp, existing, added)

\* for bm_data in game_data["bookmakers"]
RECURSIVE SaveBookmakers(_, _, _, _, _)
SaveBookmakers(bookmakers, game_id, timestamp, existing, added) ==
    IF bookmakers = << >> THEN [odds |-> added, raised |-> FALSE]
    ELSE LET bm == Head(bookmakers)
         IN  IF bm.key \notin BookmakersTable
             THEN SaveBookmakers(Tail(bookmakers), game_id, timestamp, existing, added)
             ELSE LET r == SaveMarkets(bm.markets, game_id, bm.key, timestamp,
                                       existing, added)
                  IN  IF r.raised THEN r
                      ELSE SaveBookmakers(Tail(bookmakers), game_id, timestamp,
                                          existing, r.odds)

\* a variant of the query that never finds the game
GameExistsNever(game_id, rows) == FALSE

\* session.query(Game).filter(Game.game_id == game_id).first(): the query
\* autoflushes, so it sees the committed rows and the pending ones
GameExists(game_id, rows) == game_id \in rows

\* session.commit()
Commit(c) ==
    [c EXCEPT !.games = @ \cup c.tx_games, !.odds = @ \cup c.tx_odds,
              !.tx_games = {}, !.tx_odds = {}]

\* session.add(game); session.flush() for a game_id that a row already has:
\* Game.game_id is unique, the flush raises IntegrityError (an
\* SQLAlchemyError), which is handled as every SQLAlchemyError is
UniqueViolation(c) ==
    [c EXCEPT !.tx_games = {}, !.tx_odds = {}, !.errors = @ + 1,
              !.violations = @ + 1, !.raised = "SQLAlchemyError"]

\* except SQLAlchemyError: session.rollback(); errors += 1; raise
Rollback(c) ==
    [c EXCEPT !.tx_games = {}, !.tx_odds = {}, !.errors = @ + 1,
              !.raised = "SQLAlchemyError"]

\* for game_data in snapshot.get("data", []).  fail_at is the position (from
\* 1, among the games that reach session.commit()) of the commit the store
\* rejects; 0 when the store accepts them all.
RECURSIVE SaveGames(_, _, _, _, _)
SaveGames(c, data, timestamp, fail_at, i) ==
    IF data = << >> THEN c
    ELSE LET g == GameData[Head(data)]
             rest == Tail(data)
         IN  IF g.id \in c.vg
             THEN SaveGames([c EXCEPT !.duplicate_games = @ + 1], rest, timestamp, fail_at, i)
             ELSE LET c1 == [c EXCEPT !.vg = @ \cup {g.id}] IN
                  IF g.home_team \notin TeamsTable \/ g.away_team \notin TeamsTable
                  THEN SaveGames(c1, rest, timestamp, fail_at, i)
                  ELSE LET rows == c1.games \cup c1.tx_games
                           exists == GameExists(g.id, rows)
                           c2 == IF exists THEN c1
                                 ELSE [c1 EXCEPT !.tx_games = @ \cup {g.id},
                                                 !.new_games = @ + 1]
                           r == SaveBookmakers(g.bookmakers, g.id, timestamp,
                                               c2.odds \cup c2.tx_odds, {})
                           c3 == [c2 EXCEPT !.tx_odds = @ \cup r.odds]
                       IN  IF ~exists /\ g.id \in rows THEN UniqueViolation(c1)
                           ELSE IF r.raised THEN [c3 EXCEPT !.raised = "KeyError"]
                           ELSE IF fail_at = i THEN Rollback(c3)
                           ELSE SaveGames(Commit(c3), rest, timestamp, fail_at, i + 1)

SaveToDb(vg, st, se, snapshot, fail_at) ==
    SaveGames([vg |-> vg, games |-> st.games, odds |-> st.odds,
               tx_games |-> se.games, tx_odds |-> se.odds,
               new_games |-> 0, duplicate_games |-> 0, errors |-> 0, violations |-> 0,
               raised |-> ""],
              snapshot.data, snapshot.timestamp, fail_at, 1)

\* the GameOdds rows a complete write of game_id at timestamp ts consists of
QuotesOf(game_id, ts) ==
    LET g == GameData[game_id] IN
    { OddsKey(game_id, g.bookmakers[b].key, g.bookmakers[b].markets[m].key, ts) :
        <<b, m>> \in { <<b, m>> \in (1..Len(g.bookmakers)) \X (1..2) :
                         /\ m <= Len(g.bookmakers[b].markets)
                         /\ g.bookmakers[b].key \in BookmakersTable
                         /\ g.bookmakers[b].markets[m].key \in MarketTypes
                         /\ g.bookmakers[b].markets[m].priced
                         /\ ~g.bookmakers[b].markets[m].malformed } }

\* The database at the start of a run: empty, or holding what an earlier run
\* of the collector wrote (g1 with its quotes at the first midnight).
StoreChoices ==
    { [games |-> {}, odds |-> {}],
      [games |-> {"g1"}, odds |-> QuotesOf("g1", SlotsPerDay)] }

----------------------------------------------------------------------------
(* Part I: the collector's tasks.                                          *)
(*                                                                         *)
(* asyncio runs one task at a time and switches only at an await that      *)
(* suspends: the fetch, asyncio.sleep, and acquiring a semaphore that has  *)
(* no free permit.  `running` holds the task that is between two such      *)
(* points; the other tasks cannot step until it suspends or ends.          *)
(*                                                                         *)
(* A frame is one activation of _process_date:                             *)
(*   pc = "enter"      at the top of the function (lines 361-378)          *)
(*        "fetch"      awaiting get_historical_odds_async (line 379)       *)
(*        "sleep"      inside _handle_rate_limit's asyncio.sleep (327)     *)
(*        "call_retry" awaiting the retry call (line 388)                  *)
(*        "loop"       at the head of `for snapshot in snapshots` (393)    *)
(*        "wait_nds"   at `async with self.next_day_semaphore` (408)       *)
(*        "call_nd"    awaiting the next-day call (line 409)               *)
(*        "ret"        returning                                           *)

Frame(date, depth, retry) ==
    [date |-> date, depth |-> depth, pc |-> "enter", snaps |-> << >>,
     retry |-> retry, got |-> FALSE, delay |-> 0]

Top(t) == stack[t][Len(stack[t])]
SetTop(t, f) == [stack EXCEPT ![t] = [@ EXCEPT ![Len(@)] = f]]
Push(t, f) == [stack EXCEPT ![t] = Append(@, f)]
InFrame(t, pc) == task[t] = "active" /\ stack[t] # << >> /\ Top(t).pc = pc

StatsInit ==
    [total_dates |-> 0, processed_dates |-> 0, total_snapshots |-> 0,
     total_games |-> 0, new_games |-> 0, duplicate_games |-> 0, errors |-> 0,
     next_day_timestamps |-> 0, rate_limit_retries |-> 0, skipped_dates |-> 0]

\* HistoricalDataService before collect_historical_odds is called: no odds
\* rows yet.  odds_data is the response of the last iteration of the loop,
\* the snapshot without timestamp when there was none (an exception).
ServiceInit ==
    [pc |-> "idle", current_date |-> NoTs, extended_end_date |-> NoTs, issued |-> 0,
     odds_data |-> Snapshot(NoTs, NoTs, << >>),
     odds_snapshots |-> {}, game_odds |-> {}]

\* clients.OddsAPIClient.__init__ (lines 51-52), with nobody calling yet.
\* The clock starts at an instant at least one interval after time 0, as the
\* epoch clock of time.time() does.
PacerInit ==
    [now |-> MinRequestInterval, last_request_time |-> 0, request_count |-> 0,
     issued |-> << >>,
     call |-> [c \in Callers |->
                 [pc |-> "idle", wake |-> 0, attempt |-> 0, requests |-> 0,
                  raised |-> ""]]]

\* HistoricalOddsCollector.__init__ and collect_historical_odds up to gather
Init ==
    /\ visited_timestamps = {}
    /\ visited_game_ids = {}
    /\ collection_stats = [StatsInit EXCEPT !.total_dates = NumDays]
    /\ max_concurrent_requests \in 1..MaxConcurrentRequests
    /\ semaphore = max_concurrent_requests
    /\ next_day_semaphore = 1
    /\ task = [t \in Days |-> "created"]
    /\ stack = [t \in Days |-> << >>]
    /\ running = {}
    /\ store \in StoreChoices
    /\ session = [games |-> {}, odds |-> {}]
    /\ report = << >>
    /\ hist = [rate_limited |-> {}, fetched |-> {}, completed |-> {},
               emitted |-> [ts \in Timestamps |-> 0], unique_violations |-> 0]
    /\ script = [pc |-> "idle", current_date |-> NoTs, request_count |-> 0,
                 error_count |-> 0, runs |-> 0, issued |-> 0]
    /\ odds_store = [games |-> {}, odds_snapshots |-> {}, bookmaker_odds |-> {}]
    /\ derived = {}
    /\ client = [pc |-> "idle", current_date |-> NoTs, issued |-> 0, failed |-> {}]
    /\ calc = [delays |-> << >>, pc |-> "idle", years |-> << >>, dates |-> << >>,
               current_date |-> << >>, end_date |-> << >>]
    /\ service = ServiceInit
    /\ pacer = PacerInit

dbVars == <<visited_game_ids, store, session>>
semVars == <<semaphore, next_day_semaphore>>
scriptVars == <<script, odds_store, derived, client, calc, service, pacer>>
collectorVars == <<max_concurrent_requests,
                   visited_timestamps, visited_game_ids, collection_stats, semaphore,
                   next_day_semaphore, task, stack, running, store, session,
                   report, hist>>

\* a variant of the semaphore that is never found locked
LockedNever(value) == FALSE

\* asyncio.Semaphore.locked(): no permit is free, acquire() has to wait
Locked(value) == value = 0

\* process_with_semaphore: `async with semaphore`, then the call of
\* _process_date.  The tasks are created in date order and asyncio serves
\* the ready queue and the semaphore's waiters first in, first out.
StartDay(t) ==
    /\ running = {}
    /\ task[t] = "created"
    /\ \A u \in Days : u < t => task[u] # "created"
    /\ ~Locked(semaphore)
    /\ semaphore' = semaphore - 1
    /\ task' = [task EXCEPT ![t] = "active"]
    /\ stack' = Push(t, Frame(dates[t], 0, FALSE))
    /\ running' = {t}
    /\ UNCHANGED <<visited_timestamps, collection_stats, next_day_semaphore,
                   dbVars, report, hist, scriptVars,
                   max_concurrent_requests>>

\* a variant of the guards without the two visited checks
EnterOutcomeUnguarded(date, depth, visited) ==
    IF depth > MaxDepth THEN "too_deep" ELSE "fetch"

\* the three guards at the top of _process_date
EnterOutcome(date, depth, visited) ==
    IF date \in visited THEN "visited"
    ELSE IF ShouldSkipDate(date, visited) THEN "skip"
    ELSE IF depth > MaxDepth THEN "too_deep"
    ELSE "fetch"

\* a variant of the marking that leaves the set as it is
MarkVisitedOmitted(date, visited) == visited

\* self.visited_timestamps.add(date)
MarkVisited(date, visited) == visited \cup {date}

\* _process_date, lines 361-379: the guards, then the fetch is issued
EnterProcessDate(t) ==
    /\ running = {t}
    /\ InFrame(t, "enter")
    /\ LET f == Top(t)
           o == EnterOutcome(f.date, f.depth, visited_timestamps)
       IN  /\ visited_timestamps' =
                 IF o = "fetch" THEN MarkVisited(f.date, visited_timestamps)
                 ELSE visited_timestamps
           /\ collection_stats' =
                 IF o = "skip"
                 THEN [collection_stats EXCEPT !.skipped_dates = @ + 1]
                 ELSE collection_stats
           /\ stack' = SetTop(t, [f EXCEPT !.pc = IF o = "fetch" THEN "fetch" ELSE "ret"])
           /\ running' = IF o = "fetch" THEN {} ELSE {t}
    /\ UNCHANGED <<semVars, task, dbVars, report, hist, scriptVars,
                   max_concurrent_requests>>

\* the fetch completes with an error (lines 383-391); a rate-limit error
\* enters _handle_rate_limit, which counts it and sleeps
FetchError(t) ==
    /\ running = {}
    /\ InFrame(t, "fetch")
    /\ \E r \in Responses(Top(t).date) :
         LET f == Top(t) IN
         /\ r.error # NoError
         /\ IF IsRateLimit(r.error)
            THEN /\ collection_stats.rate_limit_retries < MaxRateLimitHits
                 /\ collection_stats' =
                       [collection_stats EXCEPT !.rate_limit_retries = @ + 1]
                 /\ stack' = SetTop(t, [f EXCEPT !.pc = "sleep",
                          !.delay = RetryDelay(collection_stats.rate_limit_retries + 1)])
                 /\ running' = {}
                 /\ hist' = [hist EXCEPT !.rate_limited = @ \cup {f.date}]
            ELSE /\ collection_stats' = [collection_stats EXCEPT !.errors = @ + 1]
                 /\ stack' = SetTop(t, [f EXCEPT !.pc = "ret"])
                 /\ running' = {t}
                 /\ hist' = hist
    /\ UNCHANGED <<visited_timestamps, semVars, task, dbVars, report, scriptVars,
                   max_concurrent_requests>>

\* the fetch completes without error: the loop over its snapshots starts
FetchOk(t) ==
    /\ running = {}
    /\ InFrame(t, "fetch")
    /\ \E r \in Responses(Top(t).date) :
         LET f == Top(t) IN
         /\ r.error = NoError
         /\ stack' = SetTop(t, [f EXCEPT !.pc = "loop", !.snaps = r.snapshots,
                                         !.got = TRUE])
         /\ hist' = [hist EXCEPT !.fetched = @ \cup
                        (IF \E i \in 1..Len(r.snapshots) : HasData(r.snapshots[i])
                         THEN {f.date} ELSE {})]
    /\ running' = {t}
    /\ UNCHANGED <<visited_timestamps, collection_stats, semVars, task, dbVars, report, scriptVars,
                   max_concurrent_requests>>

\* a variant of the retry that leaves the timestamp in the visited set
VisitedForRetryKept(date, visited) == visited

\* the visited set after "Remove from visited set to allow retry"
VisitedForRetry(date, visited) == visited \ {date}

\* asyncio.sleep is over: _handle_rate_limit returns True, the timestamp
\* leaves the visited set and _process_date is called again (lines 386-388)
RetryAfterBackoff(t) ==
    /\ running = {}
    /\ InFrame(t, "sleep")
    /\ LET f == Top(t) IN
       /\ visited_timestamps' = VisitedForRetry(f.date, visited_timestamps)
       /\ stack' = [stack EXCEPT ![t] =
                       Append([@ EXCEPT ![Len(@)] = [f EXCEPT !.pc = "call_retry"]],
                              Frame(f.date, f.depth, TRUE))]
    /\ running' = {t}
    /\ UNCHANGED <<collection_stats, semVars, task, dbVars, report, hist, scriptVars,
                   max_concurrent_requests>>

\* one iteration of `for snapshot in snapshots` up to the semaphore
\* (lines 393-406), or the end of the loop
ProcessSnapshot(t) ==
    /\ running = {t}
    /\ InFrame(t, "loop")
    /\ LET f == Top(t) IN
       IF f.snaps = << >>
       THEN /\ stack' = SetTop(t, [f EXCEPT !.pc = "ret"])
            /\ UNCHANGED <<collection_stats, dbVars, hist>>
       ELSE \E fail_at \in 0..Len(Head(f.snaps).data) :
            LET s == Head(f.snaps)
                c == IF HasData(s)
                     THEN SaveToDb(visited_game_ids, store, session, s, fail_at)
                     ELSE SaveToDb(visited_game_ids, store, session,
                                   [s EXCEPT !.data = << >>], 0)
                nd == GetNextDayTimestamp(s)
            IN  /\ visited_game_ids' = c.vg
                /\ store' = [games |-> c.games, odds |-> c.odds]
                /\ session' = [games |-> c.tx_games, odds |-> c.tx_odds]
                /\ collection_stats' =
                     [collection_stats EXCEPT
                        !.total_snapshots = @ + (IF HasData(s) THEN 1 ELSE 0),
                        !.total_games = @ + Len(s.data),
                        !.new_games = @ + c.new_games,
                        !.duplicate_games = @ + c.duplicate_games,
                        !.errors = @ + c.errors + (IF c.raised # "" THEN 1 ELSE 0),
                        !.next_day_timestamps = @ + (IF nd # NoTs THEN 1 ELSE 0)]
                /\ hist' = [hist EXCEPT !.emitted[f.date] =
                                         @ + (IF HasData(s) THEN 1 ELSE 0),
                                      !.unique_violations = @ + c.violations]
                /\ stack' = SetTop(t, IF nd # NoTs THEN [f EXCEPT !.pc = "wait_nds"]
                                      ELSE [f EXCEPT !.snaps = Tail(f.snaps)])
    /\ UNCHANGED <<visited_timestamps, semVars, task, running, report, scriptVars,
                   max_concurrent_requests>>

\* `async with self.next_day_semaphore` finds no free permit: the task suspends
WaitNextDay(t) ==
    /\ running = {t}
    /\ InFrame(t, "wait_nds")
    /\ Locked(next_day_semaphore)
    /\ running' = {}
    /\ UNCHANGED <<visited_timestamps, collection_stats, semVars, task, stack,
                   dbVars, report, hist, scriptVars,
                   max_concurrent_requests>>

\* the permit is taken and _process_date(next_day_ts, depth + 1) is called
AcquireNextDay(t) ==
    /\ running \in {{}, {t}}
    /\ InFrame(t, "wait_nds")
    /\ ~Locked(next_day_semaphore)
    /\ next_day_semaphore' = next_day_semaphore - 1
    /\ LET f == Top(t) IN
       stack' = [stack EXCEPT ![t] =
                    Append([@ EXCEPT ![Len(@)] = [f EXCEPT !.pc = "call_nd"]],
                           Frame(GetNextDayTimestamp(Head(f.snaps)), f.depth + 1, FALSE))]
    /\ running' = {t}
    /\ UNCHANGED <<visited_timestamps, collection_stats, semaphore, task,
                   dbVars, report, hist, scriptVars,
                   max_concurrent_requests>>

\* a _process_date activation returns to its caller: to the retrying
\* activation (which returns in turn, line 391), to the next-day call site
\* (which releases next_day_semaphore and goes on with the loop), or to
\* process_with_semaphore (which counts the date and releases its permit)
Return(t) ==
    /\ running = {t}
    /\ InFrame(t, "ret")
    /\ LET f == Top(t)
           n == Len(stack[t])
           below == SubSeq(stack[t], 1, n - 1)
       IN  /\ hist' = [hist EXCEPT !.completed = @ \cup (IF f.got THEN {f.date} ELSE {})]
           /\ IF n = 1
              THEN /\ stack' = [stack EXCEPT ![t] = << >>]
                   /\ task' = [task EXCEPT ![t] = "done"]
                   /\ collection_stats' =
                         [collection_stats EXCEPT !.processed_dates = @ + 1]
                   /\ semaphore' = semaphore + 1
                   /\ running' = {}
                   /\ UNCHANGED next_day_semaphore
              ELSE LET caller == below[n - 1] IN
                   /\ task' = task
                   /\ collection_stats' = collection_stats
                   /\ semaphore' = semaphore
                   /\ running' = {t}
                   /\ IF caller.pc = "call_retry"
                      THEN /\ stack' = [stack EXCEPT ![t] =
                                  [below EXCEPT ![n - 1] = [caller EXCEPT !.pc = "ret"]]]
                           /\ UNCHANGED next_day_semaphore
                      ELSE /\ stack' = [stack EXCEPT ![t] =
                                  [below EXCEPT ![n - 1] =
                                      [caller EXCEPT !.pc = "loop",
                                                     !.snaps = Tail(caller.snaps)]]]
                           /\ next_day_semaphore' = next_day_semaphore + 1
    /\ UNCHANGED <<visited_timestamps, dbVars, report, scriptVars,
                   max_concurrent_requests>>

AllDone == \A t \in Days : task[t] = "done"

\* asyncio.gather returned: collection_stats.json is written (lines 440-442)
WriteStats ==
    /\ AllDone
    /\ report = << >>
    /\ report' = << collection_stats >>
    /\ UNCHANGED <<visited_timestamps, collection_stats, semVars, task, stack,
                   running, dbVars, hist, scriptVars,
                   max_concurrent_requests>>

vars == <<max_concurrent_requests, visited_timestamps, visited_game_ids, collection_stats, semaphore,
          next_day_semaphore, task, stack, running, store, session, report, hist,
          script, odds_store, derived, client, calc, service, pacer>>

Next ==
    \/ \E t \in Days : StartDay(t)
    \/ \E t \in Days : EnterProcessDate(t)
    \/ \E t \in Days : FetchError(t)
    \/ \E t \in Days : FetchOk(t)
    \/ \E t \in Days : RetryAfterBackoff(t)
    \/ \E t \in Days : ProcessSnapshot(t)
    \/ \E t \in Days : WaitNextDay(t)
    \/ \E t \in Days : AcquireNextDay(t)
    \/ \E t \in Days : Return(t)
    \/ WriteStats

Spec == Init /\ [][Next]_vars

----------------------------------------------------------------------------
(* Part II: OddsAPIClient.store_odds_snapshot and the script's loop.       *)
(*                                                                         *)
(* script.runs and script.issued are not variables of the script: they     *)
(* count its runs and its requests over all runs, which bound the model.   *)

Lower == <<"a","b","c","d","e","f","g","h","i","j","k","l","m",
           "n","o","p","q","r","s","t","u","v","w","x","y","z">>
Upper == <<"A","B","C","D","E","F","G","H","I","J","K","L","M",
           "N","O","P","Q","R","S","T","U","V","W","X","Y","Z">>

\* str.upper() on one character
ToUpper(ch) ==
    IF \E i \in 1..Len(Lower) : Lower[i] = ch
    THEN Upper[CHOOSE i \in 1..Len(Lower) : Lower[i] = ch]
    ELSE ch

\* str.isalpha() on one character
IsAlpha(ch) == \E i \in 1..Len(Upper) : Upper[i] = ch \/ Lower[i] = ch

\* seq[:n]
Prefix(seq, n) == SubSeq(seq, 1, Min(n, Len(seq)))

\* "".join(c for c in name.upper() if c.isalpha())[:3]
Abbr(name) ==
    Prefix(SelectSeq([i \in 1..Len(name) |-> ToUpper(name[i])], IsAlpha), 3)

TeamNames == { GameData[id].home_team : id \in DOMAIN GameData }
             \cup { GameData[id].away_team : id \in DOMAIN GameData }

\* home_abbr / away_abbr of every team name the provider serves
TeamAbbr == [name \in TeamNames |-> Abbr(name)]

\* a variant of the id that takes its date from the snapshot's timestamp
GameIdBySnapshotDate(game, snapshot) ==
    << "NBA", DateOf(snapshot.timestamp), TeamAbbr[game.home_team],
       TeamAbbr[game.away_team] >>

\* f"NBA-{game_date.strftime('%Y-%m-%d')}-{home_abbr}-{away_abbr}", as its
\* four hyphen-separated fields
GameId(game, snapshot) ==
    << "NBA", DateOf(game.commence_time), TeamAbbr[game.home_team],
       TeamAbbr[game.away_team] >>

\* The rows of odds_snapshots and bookmaker_odds carry a generated uuid and
\* no unique constraint (migrations/versions/add_odds_tables.py), so equal
\* rows can coexist: `copy` numbers the rows that agree on every modelled
\* column.  The chain-pointer columns are not modelled.
Copies(rows, game_id, timestamp) ==
    Cardinality({ r \in rows : r.game_id = game_id /\ r.snapshot_timestamp = timestamp })

\* for bookmaker in game.get("bookmakers", []): one bookmaker_odds row each,
\* tied to the envelope row `snapshot`
BookmakerRows(game, snapshot_row) ==
    { [snapshot |-> snapshot_row, n |-> n, bookmaker_key |-> game.bookmakers[n].key] :
          n \in 1..Len(game.bookmakers) }

\* store_odds_snapshot, the body of `for game in snapshot_data.get("data", [])`
RECURSIVE StoreGames(_, _, _)
StoreGames(db, data, snapshot) ==
    IF data = << >> THEN db
    ELSE LET game == GameData[Head(data)]
             game_id == GameId(game, snapshot)
             row == [game_id |-> game_id,
                     snapshot_timestamp |-> snapshot.timestamp,
                     copy |-> Copies(db.odds_snapshots, game_id, snapshot.timestamp) + 1]
         IN  StoreGames(
                 [games |-> db.games \cup {game_id},   \* ON CONFLICT (game_id) DO NOTHING
                  odds_snapshots |-> db.odds_snapshots \cup {row},
                  bookmaker_odds |-> db.bookmaker_odds \cup BookmakerRows(game, row)],
                 Tail(data), snapshot)

\* store_odds_snapshot: everything is committed at the end, or an exception
\* rolls everything back and is raised again
StoreOddsSnapshot(db, snapshot, fails) ==
    IF fails THEN [db |-> db, raised |-> TRUE]
    ELSE [db |-> StoreGames(db, snapshot.data, snapshot), raised |-> FALSE]

DerivationsOf(snapshot) ==
    { [commence_date |-> DateOf(GameData[snapshot.data[i]].commence_time),
       home_team |-> GameData[snapshot.data[i]].home_team,
       away_team |-> GameData[snapshot.data[i]].away_team,
       snapshot |-> snapshot.timestamp,
       game_id |-> GameId(GameData[snapshot.data[i]], snapshot)] :
          i \in 1..Len(snapshot.data) }

MaxTs(S) == CHOOSE x \in S : \A y \in S : y <= x

\* HISTORICAL_START_DATE, the first instant the provider has
HistoricalStartDate == SlotsPerDay
\* end_date: datetime.now() when the script starts
EndDate == MaxTs(Timestamps)

\* get_last_processed_timestamp: SELECT MAX(snapshot_timestamp)
GetLastProcessedTimestamp(db) ==
    IF db.odds_snapshots = {} THEN NoTs
    ELSE MaxTs({ r.snapshot_timestamp : r \in db.odds_snapshots })

\* get_historical_odds: {} on any requests exception, else the response body
ScriptResponses(date) ==
    { [ok |-> TRUE, body |-> Snapshot(date, n, d)] :
          n \in NextChoices(date), d \in ScriptDataChoices }
    \cup { [ok |-> FALSE, body |-> Snapshot(date, NoTs, << >>)] }

\* collect_historical_odds() is started: a first run, or a restart
ScriptStart ==
    /\ script.pc \in {"idle", "stopped"}
    /\ script.runs < MaxRuns
    /\ LET last == GetLastProcessedTimestamp(odds_store)
       IN  script' = [pc |-> "loop",
                      current_date |-> IF last # NoTs THEN last ELSE HistoricalStartDate,
                      request_count |-> 0, error_count |-> 0,
                      runs |-> script.runs + 1, issued |-> script.issued]
    /\ UNCHANGED <<odds_store, derived, collectorVars, client, calc, service, pacer>>

\* `while current_date <= end_date` is false: the loop ends
ScriptFinish ==
    /\ script.pc = "loop"
    /\ ~(script.current_date <= EndDate)
    /\ script' = [script EXCEPT !.pc = "stopped"]
    /\ UNCHANGED <<odds_store, derived, collectorVars, client, calc, service, pacer>>

\* the error count at which the script gives up
TooManyErrors(error_count) == error_count >= ErrorLimit

\* one iteration of the loop (lines 82-129)
ScriptIteration ==
    /\ script.pc = "loop"
    /\ script.current_date <= EndDate
    /\ script.issued < MaxScriptRequests
    /\ \E r \in ScriptResponses(script.current_date), fails \in BOOLEAN :
         LET requests == script.request_count + 1 IN
         IF ~r.ok
         THEN \* no data: move forward by one hour
              /\ ~fails
              /\ script' = [script EXCEPT !.request_count = requests, !.issued = @ + 1,
                                          !.current_date = @ + 1]
              /\ UNCHANGED <<odds_store, derived>>
         ELSE LET w == StoreOddsSnapshot(odds_store, r.body, fails) IN
              IF w.raised
              THEN /\ script' = [script EXCEPT
                          !.request_count = requests, !.issued = @ + 1,
                          !.error_count = @ + 1,
                          !.pc = IF TooManyErrors(script.error_count + 1)
                                 THEN "stopped" ELSE "loop"]
                   /\ UNCHANGED <<odds_store, derived>>
              ELSE /\ odds_store' = w.db
                   /\ derived' = derived \cup DerivationsOf(r.body)
                   /\ script' = [script EXCEPT
                          !.request_count = requests, !.issued = @ + 1,
                          !.current_date = r.body.next_timestamp,
                          !.pc = IF r.body.next_timestamp = NoTs
                                    \/ r.body.next_timestamp > EndDate
                                 THEN "stopped" ELSE "loop"]
    /\ UNCHANGED <<collectorVars, client, calc, service, pacer>>

ScriptNext ==
    \/ ScriptStart
    \/ ScriptFinish
    \/ ScriptIteration

\* the script and the collector do not share tables: the collector's are
\* left empty
ScriptInit ==
    Init /\ store.games = {} /\ max_concurrent_requests = MaxConcurrentRequests

ScriptSpec == ScriptInit /\ [][ScriptNext]_vars

----------------------------------------------------------------------------
(* OddsAPIClient.collect_historical_odds(start_date, end_date): the        *)
(* client's own loop over the same fetch and the same store.               *)
(* client.issued counts its requests, which bounds the model;              *)
(* client.failed records the timestamps whose fetch failed.                *)

\* collect_historical_odds is called with the start of a day
ClientStart ==
    /\ client.pc = "idle"
    /\ \E d \in Days :
         client' = [client EXCEPT !.pc = "loop", !.current_date = dates[d]]
    /\ UNCHANGED <<collectorVars, script, odds_store, derived, calc, service, pacer>>

\* one iteration of `while current_date <= end_date` (lines 225-244).  The
\* condition holds whenever the loop head is reached: a next_timestamp
\* beyond end_date leaves the loop by `break`.
ClientIteration ==
    /\ client.pc = "loop"
    /\ client.current_date <= EndDate
    /\ client.issued < MaxScriptRequests
    /\ \E r \in ScriptResponses(client.current_date), fails \in BOOLEAN :
         IF ~r.ok
         THEN \* get_historical_odds returned {}: `continue`
              /\ ~fails
              /\ client' = [client EXCEPT !.issued = @ + 1,
                                          !.failed = @ \cup {client.current_date}]
              /\ UNCHANGED odds_store
         ELSE LET w == StoreOddsSnapshot(odds_store, r.body, fails) IN
              IF w.raised
              THEN \* except Exception: `continue`
                   /\ client' = [client EXCEPT !.issued = @ + 1]
                   /\ UNCHANGED odds_store
              ELSE /\ odds_store' = w.db
                   /\ client' = [client EXCEPT
                          !.issued = @ + 1,
                          !.current_date = r.body.next_timestamp,
                          !.pc = IF r.body.next_timestamp = NoTs
                                    \/ r.body.next_timestamp > EndDate
                                 THEN "stopped" ELSE "loop"]
    /\ UNCHANGED <<collectorVars, script, derived, calc, service, pacer>>

ClientNext ==
    \/ ClientStart
    \/ ClientIteration

ClientSpec == ScriptInit /\ [][ClientNext]_vars

----------------------------------------------------------------------------
(* Part III: functions applied on their own.                               *)

\* team_name_mapping.get(name, name) of HistoricalDataService.find_matching_game
TeamNameMapping ==
    [name \in TeamNames |->
        CASE name = LosAngelesLakers -> "Los Angeles Lakers"
          [] name = LALakers -> "Los Angeles Lakers"
          [] name = LosAngelesClippers -> "Los Angeles Clippers"
          [] name = GoldenStateWarriors -> "Golden State"
          [] name = BostonCeltics -> "Boston"
          [] name = Philadelphia76ers -> "Philadelphia"]

\* the id store_odds_snapshot builds for one game of a snapshot it is given
DeriveGameId ==
    /\ Cardinality(derived) < MaxDerived
    /\ calc.delays = << >> /\ calc.pc = "idle"
    /\ \E home \in TeamNames, away \in TeamNames, d \in Days :
         /\ home # away
         /\ LET game == [home_team |-> home, away_team |-> away,
                         commence_time |-> dates[d] + 1]
                snapshot == Snapshot(dates[d], NoTs, << >>)
            IN  derived' = derived \cup
                   { [commence_date |-> DateOf(game.commence_time),
                      home_team |-> home, away_team |-> away,
                      snapshot |-> snapshot.timestamp,
                      game_id |-> GameId(game, snapshot)] }
    /\ UNCHANGED <<collectorVars, script, odds_store, client, calc, service, pacer>>

\* _handle_rate_limit called with a rate-limit error, time after time (the
\* consecutive rate-limited responses for one timestamp): the counter is
\* incremented, then the delay is computed and slept
HandleRateLimit ==
    /\ derived = {} /\ calc.pc = "idle"
    /\ IsRateLimit(ErrRateLimit)
    /\ collection_stats.rate_limit_retries < MaxBackoffHits
    /\ collection_stats' = [collection_stats EXCEPT !.rate_limit_retries = @ + 1]
    /\ calc' = [calc EXCEPT !.delays =
                   Append(@, RetryDelay(collection_stats.rate_limit_retries + 1))]
    /\ UNCHANGED <<max_concurrent_requests, visited_timestamps, visited_game_ids,
                   semVars, task, stack, running, store, session, report, hist,
                   script, odds_store, derived, client, service, pacer>>

\* The years given to _generate_date_range: the test's leap year, the year
\* before it and the years after it, and the next century year (which is
\* not a leap year).
Years ==
    ((TestYear - 1)..(TestYear + NumYears - 2)) \cup {(TestYear \div 100 + 1) * 100}

\* calendar.isleap, as datetime uses it
IsLeap(year) == (year % 4 = 0 /\ year % 100 # 0) \/ year % 400 = 0

DaysInMonth(year, month) ==
    IF month = 2 THEN (IF IsLeap(year) THEN 29 ELSE 28)
    ELSE IF month \in {4, 6, 9, 11} THEN 30 ELSE 31

\* datetime(year, month, day): the time of day is midnight
Datetime(year, month, day) ==
    [year |-> year, month |-> month, day |-> day,
     hour |-> 0, minute |-> 0, second |-> 0]

\* current_date + timedelta(days=1)
AddDay(dt) ==
    IF dt.day < DaysInMonth(dt.year, dt.month) THEN [dt EXCEPT !.day = @ + 1]
    ELSE IF dt.month < 12 THEN [dt EXCEPT !.month = @ + 1, !.day = 1]
    ELSE [dt EXCEPT !.year = @ + 1, !.month = 1, !.day = 1]

\* the fields of a datetime, most significant first
Fields(dt) == << dt.year, dt.month, dt.day, dt.hour, dt.minute, dt.second >>

\* lexicographic order of two tuples of six numbers
TupleLess(a, b) ==
    \E i \in 1..6 : a[i] < b[i] /\ \A j \in 1..(i - 1) : a[j] = b[j]

\* a variant of the loop condition that lets the end instant in
NotAfter(current_date, end_date) ==
    current_date = end_date \/ TupleLess(Fields(current_date), Fields(end_date))

\* current_date < end_date
Before(current_date, end_date) == TupleLess(Fields(current_date), Fields(end_date))

\* strftime("%Y-%m-%dT%H:%M:%SZ"): the six zero-padded fields of the string,
\* in its order
Strftime(dt) == << dt.year, dt.month, dt.day, dt.hour, dt.minute, dt.second >>

\* _generate_date_range is called: lines 272-274
CallGenerateDateRange ==
    /\ derived = {} /\ calc.delays = << >> /\ calc.pc = "idle"
    /\ \E start_year \in Years, end_year \in Years :
         /\ start_year <= end_year
         /\ end_year - start_year < NumYears
         /\ calc' = [calc EXCEPT !.pc = "loop",
                                 !.years = << start_year, end_year >>,
                                 !.dates = << >>,
                                 !.current_date = Datetime(start_year, 1, 1),
                                 !.end_date = Datetime(end_year + 1, 1, 1)]
    /\ UNCHANGED <<collectorVars, script, odds_store, derived, client, service, pacer>>

\* while current_date < end_date: dates.append(...); current_date += 1 day;
\* then return dates
DateRangeLoop ==
    /\ calc.pc = "loop"
    /\ IF Before(calc.current_date, calc.end_date)
       THEN calc' = [calc EXCEPT !.dates = Append(@, Strftime(calc.current_date)),
                                 !.current_date = AddDay(@)]
       ELSE calc' = [calc EXCEPT !.pc = "done"]
    /\ UNCHANGED <<collectorVars, script, odds_store, derived, client, service, pacer>>

FunNext ==
    \/ DeriveGameId
    \/ HandleRateLimit
    \/ CallGenerateDateRange
    \/ DateRangeLoop

FunSpec == ScriptInit /\ [][FunNext]_vars

----------------------------------------------------------------------------
(* Part IV: HistoricalDataService.collect_historical_odds, the interval-   *)
(* based loop that attaches odds to the games of the stored schedule.      *)
(* service.issued counts its requests, which bounds the model.             *)

\* str.lower() on one character
ToLower(ch) ==
    IF \E i \in 1..Len(Upper) : Upper[i] = ch
    THEN Lower[CHOOSE i \in 1..Len(Upper) : Upper[i] = ch]
    ELSE ch

\* name.lower()
LowerCase(name) == [i \in 1..Len(name) |-> ToLower(name[i])]

\* a in b, for two strings
IsSubstring(a, b) ==
    \E k \in 0..(Len(b) - Len(a)) : SubSeq(b, k + 1, k + Len(a)) = a

\* the provider names that are keys of team_name_mapping: "Los Angeles
\* Clippers" is not one (the table has "LA Clippers" and "clippers")
TeamNameMappingKeys ==
    {LosAngelesLakers, LALakers, GoldenStateWarriors, BostonCeltics, Philadelphia76ers}

Philadelphia == <<"P","h","i","l","a","d","e","l","p","h","i","a">>

\* the characters of the values of team_name_mapping
CanonicalName ==
    [v \in { TeamNameMapping[n] : n \in TeamNames } |->
        CASE v = "Los Angeles Lakers" -> LosAngelesLakers
          [] v = "Los Angeles Clippers" -> LosAngelesClippers
          [] v = "Golden State" -> Prefix(GoldenStateWarriors, 12)
          [] v = "Boston" -> Prefix(BostonCeltics, 6)
          [] v = "Philadelphia" -> Philadelphia]

\* get_existing_games: the rows of nba_games in the range, ordered by date
DbGames ==
    << [game_id |-> "s1", game_date |-> 1 * SlotsPerDay,
        home_team_name |-> CanonicalName["Boston"],
        visitor_team_name |-> CanonicalName["Los Angeles Clippers"]],
       [game_id |-> "s2", game_date |-> 2 * SlotsPerDay,
        home_team_name |-> CanonicalName["Los Angeles Lakers"],
        visitor_team_name |-> CanonicalName["Golden State"]] >>

\* the "data" arrays served to the service
ServiceDataChoices == { << >>, <<"g2", "g1">> }

\* OddsAPIService.get_historical_odds: the response body, or an exception
\* (raise_for_status, a connection error)
ServiceResponses(date) ==
    { [ok |-> TRUE, body |-> Snapshot(date, n, d)] :
          n \in NextChoices(date), d \in ServiceDataChoices }
    \cup { [ok |-> FALSE, body |-> Snapshot(NoTs, NoTs, << >>)] }

\* the test of find_matching_game on one stored game (lines 191-217)
GameMatches(api_game, game) ==
    LET mapped_home == LowerCase(CanonicalName[TeamNameMapping[api_game.home_team]])
        mapped_away == LowerCase(CanonicalName[TeamNameMapping[api_game.away_team]])
        db_home == LowerCase(game.home_team_name)
        db_away == LowerCase(game.visitor_team_name)
        home_match == IsSubstring(mapped_home, db_home) \/ IsSubstring(db_home, mapped_home)
        away_match == IsSubstring(mapped_away, db_away) \/ IsSubstring(db_away, mapped_away)
        same_day == DateOf(api_game.commence_time) = DateOf(game.game_date)
    IN  home_match /\ away_match /\ same_day

\* find_matching_game: the positions of the stored games that match; the
\* function returns the first, or None when there is none
FindMatchingGame(api_game, db_games) ==
    { i \in 1..Len(db_games) : GameMatches(api_game, db_games[i]) }

\* for game_odds in odds_data["data"] (lines 446-485): a game without a
\* match is passed over, a matched one gets an odds_snapshots row
\* (create_odds_snapshot) and a game_odds row per bookmaker (store_odds)
RECURSIVE ServiceStoreGames(_, _, _)
ServiceStoreGames(db, data, snapshot) ==
    IF data = << >> THEN db
    ELSE LET game_odds == GameData[Head(data)]
         IN  IF FindMatchingGame(game_odds, DbGames) = {}
             THEN ServiceStoreGames(db, Tail(data), snapshot)
             ELSE LET row == [game_id |-> game_odds.id,
                              snapshot_timestamp |-> snapshot.timestamp,
                              copy |-> Copies(db.odds_snapshots, game_odds.id,
                                              snapshot.timestamp) + 1]
                  IN  ServiceStoreGames(
                          [odds_snapshots |-> db.odds_snapshots \cup {row},
                           game_odds |-> db.game_odds \cup BookmakerRows(game_odds, row)],
                          Tail(data), snapshot)

\* collect_historical_odds(start_date, end_date) is called for one day
\* (lines 412-424)
ServiceStart ==
    /\ service.pc = "idle"
    /\ \E d \in Days :
         service' = [service EXCEPT !.pc = "loop", !.current_date = dates[d],
                                    !.extended_end_date = dates[d] + SlotsPerDay]
    /\ UNCHANGED <<collectorVars, script, odds_store, derived, client, calc, pacer>>

\* `while current_date <= extended_end_date` is false: the loop ends
ServiceFinish ==
    /\ service.pc = "loop"
    /\ ~(service.current_date <= service.extended_end_date)
    /\ service' = [service EXCEPT !.pc = "done"]
    /\ UNCHANGED <<collectorVars, script, odds_store, derived, client, calc, pacer>>

\* one iteration of the loop (lines 425-502); interval_minutes is one slot
ServiceIteration ==
    /\ service.pc = "loop"
    /\ service.current_date <= service.extended_end_date
    /\ service.issued < MaxScriptRequests
    /\ \E r \in ServiceResponses(service.current_date) :
         IF ~r.ok
         THEN \* except Exception: next interval
              service' = [service EXCEPT !.issued = @ + 1, !.odds_data = r.body,
                                         !.current_date = @ + 1]
         ELSE IF ~HasData(r.body)
         THEN \* "No odds data available": next interval
              service' = [service EXCEPT !.issued = @ + 1, !.odds_data = r.body,
                                         !.current_date = @ + 1]
         ELSE LET db == ServiceStoreGames(
                            [odds_snapshots |-> service.odds_snapshots,
                             game_odds |-> service.game_odds],
                            r.body.data, r.body)
              IN  service' = [service EXCEPT
                      !.issued = @ + 1, !.odds_data = r.body,
                      !.odds_snapshots = db.odds_snapshots,
                      !.game_odds = db.game_odds,
                      !.current_date = IF r.body.next_timestamp # NoTs
                                       THEN r.body.next_timestamp ELSE @ + 1]
    /\ UNCHANGED <<collectorVars, script, odds_store, derived, client, calc, pacer>>

ServiceNext ==
    \/ ServiceStart
    \/ ServiceFinish
    \/ ServiceIteration

ServiceSpec == ScriptInit /\ [][ServiceNext]_vars

----------------------------------------------------------------------------
(* Part V: clients.OddsAPIClient._make_request with _wait_for_rate_limit,  *)
(* called by concurrent coroutines of one event loop.                      *)
(*                                                                         *)
(* pacer.now is the clock (time.time()), pacer.issued the instants at      *)
(* which provider requests were sent, in order.  A call is in one of       *)
(*   "idle"     not started                                                *)
(*   "pacing"   in the asyncio.sleep of _wait_for_rate_limit (line 65)     *)
(*   "request"  awaiting the response of session.get (line 99)             *)
(*   "backoff"  in the wait of tenacity between two attempts               *)
(*   "returned" / "raised"  over                                           *)
(* attempt counts the attempts of tenacity, requests the provider          *)
(* requests of the call.                                                   *)

HttpOutcomes == {"200", "429", "ClientError"}

\* the exception _make_request raises for a response
ExceptionOf(outcome) ==
    IF outcome = "429" THEN "OddsAPIRateLimitError" ELSE "ClientError"

\* _wait_for_rate_limit up to its await (lines 59-65), then lines 67-68 and
\* the request when there is nothing to wait for
BeginAttempt(p, c, attempt) ==
    LET time_since_last_request == p.now - p.last_request_time IN
    IF time_since_last_request < MinRequestInterval
    THEN [p EXCEPT
            !.call[c].pc = "pacing",
            !.call[c].attempt = attempt,
            !.call[c].wake = p.now + (MinRequestInterval - time_since_last_request)]
    ELSE [p EXCEPT
            !.last_request_time = p.now,
            !.request_count = @ + 1,
            !.issued = Append(@, p.now),
            !.call[c].pc = "request",
            !.call[c].attempt = attempt,
            !.call[c].requests = @ + 1]

\* a coroutine calls _make_request (a first call, or a further one)
CallMakeRequest(c) ==
    /\ pacer.call[c].pc \in {"idle", "returned", "raised"}
    /\ pacer' = BeginAttempt([pacer EXCEPT !.call[c].requests = 0,
                                           !.call[c].raised = ""], c, 1)
    /\ UNCHANGED <<collectorVars, script, odds_store, derived, client, calc, service>>

\* asyncio.sleep(wait_time) is over: lines 67-68, then the request is sent
PacingOver(c) ==
    /\ pacer.call[c].pc = "pacing"
    /\ pacer.call[c].wake <= pacer.now
    /\ pacer' = [pacer EXCEPT
                    !.last_request_time = pacer.now,
                    !.request_count = @ + 1,
                    !.issued = Append(@, pacer.now),
                    !.call[c].pc = "request",
                    !.call[c].requests = @ + 1]
    /\ UNCHANGED <<collectorVars, script, odds_store, derived, client, calc, service>>

\* the response arrives (lines 99-111): the body is returned, or an
\* exception is raised, which tenacity answers with a further attempt after
\* a wait, or re-raises after the last attempt (lines 70-74)
Respond(c) ==
    /\ pacer.call[c].pc = "request"
    /\ \E outcome \in HttpOutcomes :
         pacer' =
            IF outcome = "200"
            THEN [pacer EXCEPT !.call[c].pc = "returned"]
            ELSE IF pacer.call[c].attempt < MaxAttempts
            THEN [pacer EXCEPT !.call[c].pc = "backoff",
                               !.call[c].wake = pacer.now + RetryWait]
            ELSE [pacer EXCEPT !.call[c].pc = "raised",
                               !.call[c].raised = ExceptionOf(outcome)]
    /\ UNCHANGED <<collectorVars, script, odds_store, derived, client, calc, service>>

\* the wait of tenacity is over: _make_request runs again
RetryAttempt(c) ==
    /\ pacer.call[c].pc = "backoff"
    /\ pacer.call[c].wake <= pacer.now
    /\ pacer' = BeginAttempt(pacer, c, pacer.call[c].attempt + 1)
    /\ UNCHANGED <<collectorVars, script, odds_store, derived, client, calc, service>>

\* time passes; the event loop wakes a sleeper as soon as it is due
Tick ==
    /\ pacer.now < MaxTime
    /\ \A c \in Callers :
          pacer.call[c].pc \in {"pacing", "backoff"} => pacer.call[c].wake > pacer.now
    /\ pacer' = [pacer EXCEPT !.now = @ + 1]
    /\ UNCHANGED <<collectorVars, script, odds_store, derived, client, calc, service>>

RequestNext ==
    \/ \E c \in Callers : CallMakeRequest(c)
    \/ \E c \in Callers : PacingOver(c)
    \/ \E c \in Callers : Respond(c)
    \/ \E c \in Callers : RetryAttempt(c)
    \/ Tick

RequestSpec == ScriptInit /\ [][RequestNext]_vars

----------------------------------------------------------------------------
(* Properties of the collector (under Spec)                                *)

GameWriteIsAtomic ==
    /\ \A game_id \in store.games :
          \E ts \in Timestamps : QuotesOf(game_id, ts) \subseteq store.odds
    /\ \A k \in store.odds :
          /\ k.game_id \in store.games
          /\ QuotesOf(k.game_id, k.timestamp) \subseteq store.odds

\* C5: a walk whose fetch of T was rate-limited does nothing else before it
\* calls _process_date for T again, that call fetches T (it is not skipped),
\* and neither step counts an error.
RateLimitedIsRetried ==
    [][\A t \in Days :
          /\ (InFrame(t, "fetch") /\ stack'[t] # stack[t]
                 /\ stack'[t][Len(stack'[t])].pc = "sleep")
                => collection_stats'.errors = collection_stats.errors
          /\ (InFrame(t, "sleep") /\ stack'[t] # stack[t])
                => /\ Len(stack'[t]) = Len(stack[t]) + 1
                   /\ stack'[t][Len(stack'[t])].pc = "enter"
                   /\ stack'[t][Len(stack'[t])].date = Top(t).date
                   /\ stack'[t][Len(stack'[t])].depth = Top(t).depth
                   /\ collection_stats'.errors = collection_stats.errors
          /\ (InFrame(t, "enter") /\ Top(t).retry /\ stack'[t] # stack[t])
                => /\ Len(stack'[t]) = Len(stack[t])
                   /\ stack'[t][Len(stack'[t])].pc = "fetch"
                   /\ stack'[t][Len(stack'[t])].date = Top(t).date
                   /\ collection_stats'.errors = collection_stats.errors
      ]_vars

\* C5 witness: the retry of a rate-limited timestamp is in flight
RetryInFlight ==
    \E t \in Days : InFrame(t, "fetch") /\ Top(t).retry
                    /\ Top(t).date \in hist.rate_limited

\* C6: a timestamp whose fetch was rate-limited is never emitted twice, and
\* once its fetch has succeeded with data it has been emitted exactly once
\* by the time the task that fetched it suspends or its call returns.
RateLimitedEmittedOnce ==
    \A ts \in hist.rate_limited :
        /\ hist.emitted[ts] <= 1
        /\ (ts \in hist.fetched /\ (running = {} \/ ts \in hist.completed))
              => hist.emitted[ts] = 1

\* C6 witness
RateLimitedThenEmitted ==
    \E ts \in hist.rate_limited :
        ts \in hist.fetched /\ ts \in hist.completed /\ hist.emitted[ts] = 1

\* the tasks that have saved a snapshot carrying game_id and are still inside
\* the loop iteration of that snapshot
SavedBy(game_id) ==
    { t \in Days : \E i \in 1..Len(stack[t]) :
        /\ stack[t][i].pc \in {"wait_nds", "call_nd"}
        /\ \E k \in 1..Len(Head(stack[t][i].snaps).data) :
               Head(stack[t][i].snaps).data[k] = game_id }

ActiveWalksWithinLimit ==
    /\ Cardinality({ t \in Days : task[t] = "active" }) <= max_concurrent_requests
    /\ Cardinality({ t \in Days : InFrame(t, "fetch") }) <= max_concurrent_requests
    /\ semaphore = max_concurrent_requests
                      - Cardinality({ t \in Days : task[t] = "active" })

\* C18 witness: as many walks as allowed are active, each with a fetch in
\* flight, one of them for a next-day timestamp, while a further day waits
LimitReachedWithDayWaiting ==
    /\ Cardinality({ t \in Days : InFrame(t, "fetch") }) = max_concurrent_requests
    /\ \E t \in Days : InFrame(t, "fetch") /\ Top(t).depth > 0
    /\ \E t \in Days : task[t] = "created"

\* C20: a snapshot with a game that was written before has its quotes for
\* that game persisted at the snapshot's own timestamp (here for g1, whose
\* data is well formed, in a run without any failed write).
LaterSightingIsPersisted ==
    \A t \in Days : \A i \in 1..Len(stack[t]) :
        (/\ stack[t][i].pc \in {"wait_nds", "call_nd"}
         /\ \E k \in 1..Len(Head(stack[t][i].snaps).data) :
                Head(stack[t][i].snaps).data[k] = "g1"
         /\ collection_stats.errors = 0)
            => QuotesOf("g1", Head(stack[t][i].snaps).timestamp) \subseteq store.odds

\* C8: collect_historical_odds returns: as long as it has not, some task can
\* take a step (no task waits on a semaphore that will never be released).
CollectorNeverStuck == report # << >> \/ ENABLED Next

\* C21: visited_game_ids holds only provider game ids whose game is committed
\* in the store: not the id of a record that was skipped for an unresolved
\* team, nor the id of a game whose write did not commit.
VisitedGameIdsAreCommitted == visited_game_ids \subseteq store.games

TimestampFetchedOnceUnlessRateLimited ==
    [][/\ \A t \in Days :
            (/\ stack'[t] # stack[t]
             /\ stack'[t] # << >>
             /\ stack'[t][Len(stack'[t])].pc = "fetch")
                => LET d == stack'[t][Len(stack'[t])].date IN
                   /\ d \notin visited_timestamps
                   /\ d \in visited_timestamps'
                   /\ \A u \in Days : \A i \in 1..Len(stack[u]) :
                         stack[u][i].pc \in {"fetch", "sleep"} => stack[u][i].date # d
       /\ \A ts \in visited_timestamps \ visited_timestamps' :
             /\ ts \in hist.rate_limited
             /\ \E t \in Days : InFrame(t, "sleep") /\ Top(t).date = ts
      ]_vars

\* C25 witness: while two walks are active, one of them is called for a
\* next-day timestamp that the other has already fetched
SecondRequestRefused ==
    \E t, u \in Days :
        /\ t # u /\ task[u] = "active"
        /\ InFrame(t, "enter")
        /\ Top(t).depth > 0
        /\ Top(t).date \in visited_timestamps
        /\ Top(t).date = dates[u]

\* C28: the delay a walk sleeps after a rate-limited response is the delay
\* for its own number of consecutive rate-limited responses for the
\* timestamp it retries (one activation per such response is on its stack).
BackoffDependsOnOwnHitsOnly ==
    \A t \in Days :
        InFrame(t, "sleep") =>
            Top(t).delay =
                RetryDelay(Cardinality({ i \in 1..Len(stack[t]) :
                                           /\ stack[t][i].date = Top(t).date
                                           /\ stack[t][i].pc \in {"call_retry", "sleep"} }))

\* C29: visited_timestamps never holds two timestamps of one calendar date,
\* and every timestamp whose fetch is in flight or backing off is in it.
AtMostOneVisitedPerDate ==
    /\ \A a, b \in visited_timestamps : DateOf(a) = DateOf(b) => a = b
    /\ \A t \in Days : \A i \in 1..Len(stack[t]) :
          stack[t][i].pc \in {"fetch", "sleep"} => stack[t][i].date \in visited_timestamps

\* C29 witness: a next-day chain node has been skipped without a fetch
\* because another timestamp of its calendar date is visited
ChainNodeOfCoveredDateSkipped ==
    \E t \in Days :
        /\ InFrame(t, "ret")
        /\ Top(t).depth > 0 /\ ~Top(t).got
        /\ Top(t).date \notin visited_timestamps
        /\ \E ts \in visited_timestamps : DateOf(ts) = DateOf(Top(t).date)

\* C30: a step of the run that handles a failed snapshot write (or a failed
\* fetch) adds exactly one to collection_stats["errors"], never more.
FailedWriteCountedOnce ==
    [][collection_stats'.errors <= collection_stats.errors + 1]_vars

----------------------------------------------------------------------------
(* Properties of the script and of store_odds_snapshot (under ScriptSpec)  *)

\* C2: at most one bookmaker-quote row per (game, bookmaker, snapshot
\* timestamp); the row holds all market types of that bookmaker.
OneQuoteRowPerTuple ==
    \A r1, r2 \in odds_store.bookmaker_odds :
        (/\ r1.snapshot.game_id = r2.snapshot.game_id
         /\ r1.snapshot.snapshot_timestamp = r2.snapshot.snapshot_timestamp
         /\ r1.bookmaker_key = r2.bookmaker_key)
            => r1 = r2

\* C3: fetching and persisting a timestamp whose snapshot is already in the
\* store leaves the store as it was.
StoredSnapshotRewriteIsNoOp ==
    [][(/\ script.pc = "loop"
        /\ \E r \in odds_store.odds_snapshots :
               r.snapshot_timestamp = script.current_date)
           => odds_store' = odds_store]_vars

\* C7: a sequential walk that comes back to a timestamp it has already
\* stored (a cycle, or a pointer that does not advance) ends within the
\* maximum chain depth.  In the first run on an empty store every stored
\* snapshot is one this walk has fetched.
CyclicWalkWithinMaxDepth ==
    (/\ script.pc = "loop"
     /\ script.runs = 1
     /\ \E r \in odds_store.odds_snapshots :
            r.snapshot_timestamp = script.current_date)
        => script.request_count <= MaxDepth

\* C9: the run stops only when the requested range is exhausted, whatever
\* errors occurred on the way.
RunStopsOnlyAtEndOfRange ==
    script.pc = "stopped"
        => (script.current_date = NoTs \/ script.current_date > EndDate)

\* C17: after a write that failed the script goes on with another timestamp:
\* it does not stay on the node whose write failed to fetch and write it
\* again.
FailedWriteNotRepeated ==
    [][(script'.error_count > script.error_count /\ script'.pc = "loop")
          => script'.current_date # script.current_date]_vars

IsAbbreviation(a) ==
    /\ Len(a) <= 3
    /\ \A i \in 1..Len(a) : \E j \in 1..Len(Upper) : Upper[j] = a[i]

\* C10: derivations from equal (commence date, home name, away name) yield
\* the same id, whatever snapshot they come from (there are as many distinct
\* inputs as distinct (inputs, id) pairs), and the id has the fields NBA,
\* commence date, home abbreviation, away abbreviation.
GameIdIsFunctionOfDateAndTeams ==
    /\ Cardinality({ <<a.commence_date, a.home_team, a.away_team>> : a \in derived })
          = Cardinality({ <<a.commence_date, a.home_team, a.away_team, a.game_id>> :
                            a \in derived })
    /\ \A a \in derived :
          /\ Len(a.game_id) = 4
          /\ a.game_id[1] = "NBA"
          /\ a.game_id[2] = a.commence_date
          /\ IsAbbreviation(a.game_id[3])
          /\ IsAbbreviation(a.game_id[4])

\* C10 witness: the same game was derived from two different snapshots, on
\* different calendar days
SameGameFromTwoSnapshots ==
    \E a, b \in derived :
        /\ a.home_team = b.home_team /\ a.away_team = b.away_team
        /\ a.commence_date = b.commence_date
        /\ DateOf(a.snapshot) # DateOf(b.snapshot)
        /\ odds_store.games # {}

----------------------------------------------------------------------------
(* Properties of the functions applied on their own (under FunSpec)        *)

\* C11: two derivations for the same commence date whose home names resolve
\* to one canonical team, and whose away names do, yield the same game id.
SpellingsShareGameId ==
    \A a, b \in derived :
        (/\ a.commence_date = b.commence_date
         /\ TeamNameMapping[a.home_team] = TeamNameMapping[b.home_team]
         /\ TeamNameMapping[a.away_team] = TeamNameMapping[b.away_team])
            => a.game_id = b.game_id

\* C13: the k-th consecutive rate-limited response is followed by a sleep of
\* min(2^(k-1), 30) seconds: 1, 2, 4, ... up to the cap.
BackoffStartsAtOneSecond ==
    \A k \in 1..Len(calc.delays) : calc.delays[k] = Min(2 ^ (k - 1), BackoffCap)

\* C14: the delays of consecutive rate-limited responses never decrease and
\* never exceed the cap.
DelaysNonDecreasingAndCapped ==
    \A k \in 1..Len(calc.delays) :
        /\ calc.delays[k] <= BackoffCap
        /\ k > 1 => calc.delays[k - 1] <= calc.delays[k]

\* C14 witness: the delays have grown and have reached the cap
DelaysReachedCap ==
    /\ Len(calc.delays) >= 2
    /\ calc.delays[1] < calc.delays[2]
    /\ calc.delays[Len(calc.delays)] = BackoffCap
    /\ 2 ^ Len(calc.delays) > BackoffCap

\* the number of days of the years first..last
DaysOfYears(first, last) ==
    365 * (last - first + 1) + Cardinality({ y \in first..last : IsLeap(y) })

\* C15: for start_year <= end_year the result is strictly ascending, each
\* entry is the midnight of a calendar day of the years asked for, the first
\* is 1 January of start_year, the last 31 December of end_year, and there
\* are as many entries as the years have days (so every day occurs once).
DateRangeIsEveryDayOnce ==
    calc.pc = "done" =>
        LET r == calc.dates
            first == calc.years[1]
            last == calc.years[2]
        IN  /\ Len(r) = DaysOfYears(first, last)
            /\ r[1] = << first, 1, 1, 0, 0, 0 >>
            /\ r[Len(r)] = << last, 12, 31, 0, 0, 0 >>
            /\ \A i \in 1..Len(r) :
                  /\ r[i][1] \in first..last
                  /\ r[i][2] \in 1..12
                  /\ r[i][3] \in 1..DaysInMonth(r[i][1], r[i][2])
                  /\ r[i][4] = 0 /\ r[i][5] = 0 /\ r[i][6] = 0
                  /\ i < Len(r) => TupleLess(r[i], r[i + 1])

\* C15 witness: a range over more than one year, one of them a leap year,
\* was generated
LeapYearRangeGenerated ==
    /\ calc.pc = "done"
    /\ calc.years[2] > calc.years[1]
    /\ \E y \in calc.years[1]..calc.years[2] : IsLeap(y)
    /\ Len(calc.dates) > 366

\* C19: two derivations for the same commence date whose (home, away) teams
\* differ yield different game ids.
DistinctGamesHaveDistinctIds ==
    \A a, b \in derived :
        (/\ a.commence_date = b.commence_date
         /\ << TeamNameMapping[a.home_team], TeamNameMapping[a.away_team] >>
               # << TeamNameMapping[b.home_team], TeamNameMapping[b.away_team] >>)
            => a.game_id # b.game_id

----------------------------------------------------------------------------
(* Properties of HistoricalDataService (under ServiceSpec)                 *)

\* C22: a game record whose home or away team name is not a key of the
\* mapping table gets no odds_snapshots row and no game_odds row.
UnmappedRecordWritesNothing ==
    /\ \A r \in service.odds_snapshots :
          /\ GameData[r.game_id].home_team \in TeamNameMappingKeys
          /\ GameData[r.game_id].away_team \in TeamNameMappingKeys
    /\ \A q \in service.game_odds :
          /\ GameData[q.snapshot.game_id].home_team \in TeamNameMappingKeys
          /\ GameData[q.snapshot.game_id].away_team \in TeamNameMappingKeys

\* C23: after a successful fetch whose data array is empty and whose
\* next_timestamp is set, the loop stands at that next_timestamp, as it
\* does after a non-empty snapshot.
EmptyWindowNextIsFollowed ==
    (/\ service.pc = "loop"
     /\ service.odds_data.timestamp # NoTs
     /\ ~HasData(service.odds_data)
     /\ service.odds_data.next_timestamp # NoTs)
        => service.current_date = service.odds_data.next_timestamp

----------------------------------------------------------------------------
(* Properties of clients.OddsAPIClient._make_request (under RequestSpec)   *)

\* C26: one call sends one provider request and does not raise: a 429 is
\* reported to the caller as an outcome, the request is not sent again.
FetchSendsOneRequestAndNeverRaises ==
    \A c \in Callers :
        /\ pacer.call[c].requests <= 1
        /\ pacer.call[c].pc # "raised"

\* C27: any two consecutive provider requests are sent at least
\* _min_request_interval apart.
RequestsAreSpaced ==
    \A i \in 2..Len(pacer.issued) :
        pacer.issued[i] - pacer.issued[i - 1] >= MinRequestInterval

----------------------------------------------------------------------------
(* Properties of OddsAPIClient.collect_historical_odds (under ClientSpec)  *)

\* C16: a timestamp whose fetch failed is not fetched again: the loop never
\* stands, about to fetch, at a timestamp whose fetch has failed.
FailedFetchNotRepeated ==
    client.pc = "loop" => client.current_date \notin client.failed

====
